---- MODULE Spec2Model ----
(***************************************************************************)
(* Model of the vibe-cli command-resolution and template-execution engine: *)
(* the Node entry point (formatCommand, executeShellCommand, main) and the *)
(* shared parseCommandArgs.  Strings are sequences of one-character        *)
(* strings, so that JavaScript's String.prototype.match / replace can be   *)
(* computed as the engine computes them.                                   *)
(***************************************************************************)
EXTENDS Integers, Sequences, FiniteSets, TLC

\* State of one formatCommand call: its parameters template and args, the
\* string it returns (result), for each character of result whether a
\* replacement inserted it (mask), whether the call has returned (fpc), and
\* the string formatCommand of shared/utils.ts returns for the same parameters
\* (resultShared).
VARIABLES template, args, result, mask, fpc, resultShared

\* State of one invocation of the command line: cliArgs (argv), the contents
\* of commands.yaml and vibe_language_commands.yaml, the position of main
\* (pc), its locals commands and nlCommands, the CommandInfo the shared
\* parseCommandArgs returns for the same arguments (info), everything written
\* to the console (out), the command lines given to execSync (executed), the
\* CommandResult of executeShellCommand (execResult), the exit code of the
\* process (exitCode, -1 while it runs), what the child process started by
\* execSync did (child), and what executeCommand of shared/utils.ts returns
\* for info (sharedExec).
VARIABLES argv, yamlCommands, yamlPhrases, pc, commands, nlCommands, info,
          out, executed, execResult, exitCode, child, sharedExec

\* State of the programs that edit the shell configuration file: which
\* program runs (op), what getSharedDir finds on disk and in the environment
\* (env) and what it returned (sharedDir), the configuration file (rc), its
\* content before the program ran (rcInit) and after the first complete run
\* of install-alias (rcFirst), the backup copy made by the current run
\* (backup), the position of the program (ipc), the number of the run of
\* install-alias (run), whether the configuration file has been written in
\* this run (written) and the exit code (iexit, -1 while it runs).
VARIABLES op, env, sharedDir, rc, rcInit, rcFirst, backup, ipc, run, written,
          iexit

fvars == <<template, args, result, mask, fpc, resultShared>>

cvars == <<argv, yamlCommands, yamlPhrases, pc, commands, nlCommands, info,
           out, executed, execResult, exitCode, child, sharedExec>>

ivars == <<op, env, sharedDir, rc, rcInit, rcFirst, backup, ipc, run, written,
           iexit>>

vars == <<template, args, result, mask, fpc, resultShared,
          argv, yamlCommands, yamlPhrases, pc, commands, nlCommands, info,
          out, executed, execResult, exitCode, child, sharedExec,
          op, env, sharedDir, rc, rcInit, rcFirst, backup, ipc, run, written,
          iexit>>

----------------------------------------------------------------------------
\* Bounds of the model.

MaxTemplateLen == 6

MaxArgs == 2

MaxArgv == 3

\* The longest configuration file tried, in lines.
MaxRcLines == 2

----------------------------------------------------------------------------
\* String constants (character sequences).

s_main == <<"m", "a", "i", "n">>

s_checkout == <<"c", "h", "e", "c", "k", "o", "u", "t">>

s_fixed == <<"F", "i", "x", "e", "d", " ", "a", " ", "b", "u", "g">>

s_inject == <<";", " ", "r", "m", " ", "-", "r", "f", " ", "/">>

s_git == <<"g", "i", "t">>

s_status == <<"s", "t", "a", "t", "u", "s">>

s_st == <<"s", "t">>

s_activate == <<"a", "c", "t", "i", "v", "a", "t", "e">>

s_broken == <<"b", "r", "o", "k", "e", "n">>

s_both == <<"b", "o", "t", "h">>

s_help == <<"h", "e", "l", "p">>

s_dashdashhelp == <<"-", "-", "h", "e", "l", "p">>

s_dashh == <<"-", "h">>

s_version == <<"-", "-", "v", "e", "r", "s", "i", "o", "n">>

s_dashv == <<"-", "v">>

s_npm == <<"n", "p", "m">>

s_dockerz == <<"d", "o", "c", "k", "e", "r", "z">>

s_check == <<"c", "h", "e", "c", "k">>

s_check_status == <<"c", "h", "e", "c", "k", " ", "s", "t", "a", "t", "u", "s">>

s_constructor == <<"c", "o", "n", "s", "t", "r", "u", "c", "t", "o", "r">>

s_install_alias == <<"i", "n", "s", "t", "a", "l", "l", "-", "a", "l", "i", "a", "s">>

s_uninstall == <<"u", "n", "i", "n", "s", "t", "a", "l", "l">>

s_command == <<"c", "o", "m", "m", "a", "n", "d">>

s_handler == <<"h", "a", "n", "d", "l", "e", "r">>

s_description == <<"d", "e", "s", "c", "r", "i", "p", "t", "i", "o", "n">>

s_aliases == <<"a", "l", "i", "a", "s", "e", "s">>

t_git_checkout == <<"g", "i", "t", " ", "c", "h", "e", "c", "k", "o", "u", "t", " ", "{", "0", "}">>

t_git_help == <<"g", "i", "t", " ", "h", "e", "l", "p">>

s_venv_handler == <<"p", "y", "t", "h", "o", "n", ".", "a", "c", "t", "i", "v", "a", "t", "e", "_", "v", "e", "n", "v">>

s_space == <<" ">>

s_out == <<"o">>

s_err == <<"e">>

t_git_status == <<"g", "i", "t", " ", "s", "t", "a", "t", "u", "s">>

t_test_commit == <<"g", "i", "t", " ", "c", "o", "m", "m", "i", "t", " ", "-", "m", " ", "\"", "{", "0", "}", "\"">>

r_test_commit == <<"g", "i", "t", " ", "c", "o", "m", "m", "i", "t", " ", "-", "m", " ", "\"", "F", "i", "x", "e", "d", " ", "a", " ", "b", "u", "g", "\"">>

t_test_two == <<"g", "i", "t", " ", "{", "0", "}", " ", "{", "1", "}">>

r_test_two == <<"g", "i", "t", " ", "c", "h", "e", "c", "k", "o", "u", "t", " ", "m", "a", "i", "n">>

t_test_missing == <<"g", "i", "t", " ", "c", "h", "e", "c", "k", "o", "u", "t", " ", "{", "0", "}", " ", "{", "1", "}">>

r_test_missing == <<"g", "i", "t", " ", "c", "h", "e", "c", "k", "o", "u", "t", " ", "m", "a", "i", "n", " ", "{", "1", "}">>

----------------------------------------------------------------------------
\* JavaScript string primitives used by formatCommand.

Range(s) == {s[k] : k \in 1..Len(s)}

\* Index of the first "}" strictly after position p, 0 when there is none.
FirstClose(s, p) ==
  LET qs == {q \in (p + 1)..Len(s) : s[q] = "}"}
  IN  IF qs = {} THEN 0 ELSE CHOOSE q \in qs : \A r \in qs : q <= r

\* /\{([^}]+)\}/ tried at position p: the index of the closing brace of the
\* match, 0 when the regular expression does not match there.
MatchEnd(s, p) ==
  IF s[p] = "{" /\ FirstClose(s, p) >= p + 2 THEN FirstClose(s, p) ELSE 0

\* template.match(/\{([^}]+)\}/g): the leftmost non-overlapping matches, as
\* <<first, last>> index pairs, scanning from position p.
RECURSIVE MatchSpans(_, _)
MatchSpans(s, p) ==
  IF p > Len(s) THEN <<>>
  ELSE IF MatchEnd(s, p) > 0
       THEN <<(<<p, MatchEnd(s, p)>>)>> \o MatchSpans(s, MatchEnd(s, p) + 1)
       ELSE MatchSpans(s, p + 1)

\* The matched texts: the array `placeholders` of formatCommand.
MatchAll(s) ==
  LET sp == MatchSpans(s, 1)
  IN  [k \in 1..Len(sp) |-> SubSeq(s, sp[k][1], sp[k][2])]

\* String.prototype.indexOf for a non-empty pattern, 1-based, 0 when absent.
IndexOf(s, pat) ==
  LET is == {i \in 1..(Len(s) - Len(pat) + 1) : SubSeq(s, i, i + Len(pat) - 1) = pat}
  IN  IF is = {} THEN 0 ELSE CHOOSE i \in is : \A j \in is : i <= j

\* The characters ` and ' of a replacement pattern, as atoms.
Backtick == "BACKTICK"

Apostrophe == "APOSTROPHE"

\* GetSubstitution of String.prototype.replace with a string pattern: the
\* replacement text is scanned for $$, $&, $-backtick and $-apostrophe (there
\* are no captures, so $1..$99 stay literal).
RECURSIVE GetSubstitution(_, _, _, _, _)
GetSubstitution(rep, k, matched, before, after) ==
  IF k > Len(rep) THEN <<>>
  ELSE IF rep[k] = "$" /\ k < Len(rep) /\ rep[k + 1] \in {"$", "&", Backtick, Apostrophe}
       THEN (CASE rep[k + 1] = "$" -> <<"$">>
               [] rep[k + 1] = "&" -> matched
               [] rep[k + 1] = Backtick -> before
               [] OTHER            -> after)
            \o GetSubstitution(rep, k + 2, matched, before, after)
       ELSE <<rep[k]>> \o GetSubstitution(rep, k + 1, matched, before, after)

\* A run of n copies of the flag b.
Flags(n, b) == [k \in 1..n |-> b]

\* result.replace(pat, rep) on a traced string st = [text, mask]: the first
\* occurrence of pat is replaced by the expansion of rep; mask[k] tells
\* whether text[k] was inserted by a replacement (TRUE) or comes from the
\* template (FALSE).
StringReplace(st, pat, rep) ==
  LET i == IndexOf(st.text, pat)
      n == Len(st.text)
      before == SubSeq(st.text, 1, i - 1)
      after == SubSeq(st.text, i + Len(pat), n)
      ins == GetSubstitution(rep, 1, pat, before, after)
  IN  IF i = 0 THEN st
      ELSE [text |-> before \o ins \o after,
            mask |-> SubSeq(st.mask, 1, i - 1) \o Flags(Len(ins), TRUE)
                     \o SubSeq(st.mask, i + Len(pat), n)]

----------------------------------------------------------------------------
\* formatCommand of the Node entry point.

\* Body of the for loop, iteration i (1-based): replace with the argument
\* value if available, else leave the string alone.
FormatStepDropsMissing(st, placeholder, as, i) ==
  IF i <= Len(as) THEN StringReplace(st, placeholder, as[i])
  ELSE StringReplace(st, placeholder, <<>>)

FormatStep(st, placeholder, as, i) ==
  IF i <= Len(as) THEN StringReplace(st, placeholder, as[i]) ELSE st

RECURSIVE FormatLoop(_, _, _, _)
FormatLoop(st, placeholders, as, i) ==
  IF i > Len(placeholders) THEN st
  ELSE FormatLoop(FormatStep(st, placeholders[i], as, i), placeholders, as, i + 1)

\* The traced result of formatCommand(t, as).
FormatTraceDropsPlain(t, as) ==
  LET st0 == [text |-> t, mask |-> Flags(Len(t), FALSE)]
  IN  IF "{" \in Range(t) THEN FormatLoop(st0, MatchAll(t), as, 1)
      ELSE [text |-> <<>>, mask |-> <<>>]

FormatTrace(t, as) ==
  LET st0 == [text |-> t, mask |-> Flags(Len(t), FALSE)]
  IN  IF "{" \in Range(t) THEN FormatLoop(st0, MatchAll(t), as, 1) ELSE st0

formatCommand(t, as) == FormatTrace(t, as).text

----------------------------------------------------------------------------
\* formatCommand of shared/utils.ts.

RECURSIVE SharedFormatLoop(_, _, _, _)
SharedFormatLoop(st, placeholders, as, i) ==
  IF i > Len(placeholders) THEN st
  ELSE LET clean == SelectSeq(placeholders[i], LAMBDA c : c \notin {"{", "}"})
           next == IF i <= Len(as)
                   THEN StringReplace(st, <<"{">> \o clean \o <<"}">>, as[i])
                   ELSE st
       IN  SharedFormatLoop(next, placeholders, as, i + 1)

formatCommandShared(t, as) ==
  LET st0 == [text |-> t, mask |-> Flags(Len(t), FALSE)]
  IN  IF "{" \in Range(t) THEN SharedFormatLoop(st0, MatchAll(t), as, 1).text
      ELSE t

----------------------------------------------------------------------------
\* JavaScript values of the command tables: what yaml.load returns.

Undefined == [tag |-> "undefined", val |-> <<>>]

Builtin == [tag |-> "function", val |-> <<>>]

Str(s) == [tag |-> "string", val |-> s]

Arr(a) == [tag |-> "array", val |-> a]

Obj(f) == [tag |-> "object", val |-> f]

EmptyObject == Obj(<<>>)

\* A file that cannot be read (missing, no permission).
Unreadable == [tag |-> "unreadable", val |-> <<>>]

\* A file whose content yaml.load rejects.
Malformed == [tag |-> "malformed", val |-> <<>>]

\* An exception that leaves a function instead of a return value.
Thrown == [tag |-> "thrown", val |-> <<>>]

\* Property names every plain object inherits from Object.prototype (those
\* among the tokens of the model).
ObjectPrototypeKeys == {s_constructor}

\* obj[key]: an own property, else an inherited one, else undefined.
Get(v, key) ==
  IF v.tag = "object" /\ key \in DOMAIN v.val THEN v.val[key]
  ELSE IF v.tag # "undefined" /\ key \in ObjectPrototypeKeys THEN Builtin
  ELSE Undefined

\* The truthiness test of `if (x)` and `!x`.
Truthy(v) ==
  CASE v.tag = "undefined" -> FALSE
    [] v.tag = "string"    -> v.val # <<>>
    [] OTHER               -> TRUE

\* Object.keys(v) and the names a for..in loop visits.
Keys(v) == IF v.tag = "object" THEN DOMAIN v.val ELSE {}

\* args.join(sep)
RECURSIVE Join(_, _)
Join(ss, sep) ==
  IF Len(ss) = 0 THEN <<>>
  ELSE IF Len(ss) = 1 THEN ss[1]
  ELSE ss[1] \o sep \o Join(Tail(ss), sep)

----------------------------------------------------------------------------
\* Command tables (commands.yaml) and the phrase table
\* (vibe_language_commands.yaml).

StatusDescriptor ==
  Obj((s_command :> Str(t_git_status)) @@ (s_description :> Str(s_status))
      @@ (s_aliases :> Arr(<<s_st>>)))

CheckoutDescriptor ==
  Obj((s_command :> Str(t_git_checkout)) @@ (s_description :> Str(s_checkout)))

HelpDescriptor ==
  Obj((s_command :> Str(t_git_help)) @@ (s_description :> Str(s_help)))

HandlerDescriptor ==
  Obj((s_handler :> Str(s_venv_handler)) @@ (s_description :> Str(s_activate)))

\* Neither a template nor a handler.
BrokenDescriptor == Obj((s_description :> Str(s_broken)))

\* Both a template and a handler.
BothDescriptor ==
  Obj((s_command :> Str(t_git_checkout)) @@ (s_handler :> Str(s_venv_handler)))

ValidGitCommands ==
  (s_status :> StatusDescriptor) @@ (s_checkout :> CheckoutDescriptor)
  @@ (s_help :> HelpDescriptor) @@ (s_activate :> HandlerDescriptor)

\* A second tool, one that defines no command named help.
NpmCommands == (s_status :> StatusDescriptor)

TableValid == Obj((s_git :> Obj(ValidGitCommands)) @@ (s_npm :> Obj(NpmCommands)))

TableInvalid ==
  Obj((s_git :> Obj(ValidGitCommands @@ (s_broken :> BrokenDescriptor)
                    @@ (s_both :> BothDescriptor))))

PhraseTable ==
  Obj((s_git :> Obj((s_check_status :> Str(s_status))
                    @@ (t_git_status :> Str(s_checkout)))))

\* loadCommands: the parsed file, or {} when reading or parsing fails or the
\* file is empty.
loadCommandsNoCatch(file) ==
  IF file.tag \in {"unreadable", "malformed"} THEN Thrown
  ELSE IF Truthy(file) THEN file ELSE EmptyObject

loadCommands(file) ==
  IF file.tag \in {"unreadable", "malformed"} THEN EmptyObject
  ELSE IF Truthy(file) THEN file ELSE EmptyObject

loadNaturalLanguageCommands(file) ==
  IF file.tag \in {"unreadable", "malformed"} THEN EmptyObject
  ELSE IF Truthy(file) THEN file ELSE EmptyObject

\* The logger.error call of the catch block of a loader.
LoaderLog(file, what) ==
  IF file.tag \in {"unreadable", "malformed"}
  THEN <<[stream |-> "log", kind |-> "load_failed", detail |-> <<what, file.tag>>]>>
  ELSE <<>>

----------------------------------------------------------------------------
\* parseCommandArgs of shared/utils.ts.

s_version_name == <<"v", "e", "r", "s", "i", "o", "n">>

parseCommandArgsNoCommandHelp(as, cmds) ==
  IF Len(as) = 0 THEN [error |-> <<"No command specified">>, showHelp |-> TRUE]
  ELSE IF as[1] = s_version \/ as[1] = s_dashv
  THEN [type |-> "system", command |-> s_version_name, args |-> <<>>]
  ELSE IF as[1] = s_help \/ as[1] = s_dashdashhelp \/ as[1] = s_dashh
  THEN [showHelp |-> TRUE]
  ELSE IF ~Truthy(Get(cmds, as[1]))
  THEN [error |-> <<"Unknown tool", as[1]>>, showHelp |-> TRUE]
  ELSE IF Len(as) = 1 \/ (Len(as) > 1 /\ as[2] = s_help)
  THEN [toolHelp |-> as[1], commands |-> Get(cmds, as[1])]
  ELSE IF ~Truthy(Get(Get(cmds, as[1]), as[2]))
  THEN [error |-> <<"Unknown command", as[1], as[2]>>,
        toolHelp |-> as[1], commands |-> Get(cmds, as[1])]
  ELSE [tool |-> as[1], command |-> as[2], config |-> Get(Get(cmds, as[1]), as[2]),
        args |-> SubSeq(as, 3, Len(as))]

parseCommandArgs(as, cmds) ==
  IF Len(as) = 0 THEN [error |-> <<"No command specified">>, showHelp |-> TRUE]
  ELSE IF as[1] = s_version \/ as[1] = s_dashv
  THEN [type |-> "system", command |-> s_version_name, args |-> <<>>]
  ELSE IF as[1] = s_help \/ as[1] = s_dashdashhelp \/ as[1] = s_dashh
  THEN [showHelp |-> TRUE]
  ELSE LET toolName == as[1]
           toolCommands == Get(cmds, toolName)
       IN
    IF ~Truthy(toolCommands)
    THEN [error |-> <<"Unknown tool", toolName>>, showHelp |-> TRUE]
    ELSE IF Len(as) = 1 \/ (Len(as) > 1 /\ as[2] = s_help)
    THEN [toolHelp |-> toolName, commands |-> toolCommands]
    ELSE LET commandName == as[2]
             command == Get(toolCommands, commandName)
         IN
      IF ~Truthy(command)
      THEN [error |-> <<"Unknown command", toolName, commandName>>,
            toolHelp |-> toolName, commands |-> toolCommands]
      ELSE IF Len(as) > 2 /\ as[3] = s_help
      THEN [commandHelp |-> TRUE, tool |-> toolName, command |-> commandName,
            config |-> command]
      ELSE [tool |-> toolName, command |-> commandName, config |-> command,
            args |-> SubSeq(as, 3, Len(as))]

----------------------------------------------------------------------------
\* The Node entry point: help printers, executeShellCommand and main.

CLI_VERSION == <<"0", ".", "1", ".", "0">>

Event(stream, kind, detail) == [stream |-> stream, kind |-> kind, detail |-> detail]

printGeneralHelp(cmds) == <<Event("stdout", "general_help", Keys(cmds))>>

printToolHelp(tool, toolCmds) ==
  <<Event("stdout", "tool_help", <<tool, toolCmds>>)>>

printCommandHelp(tool, name, config) ==
  <<Event("stdout", "command_help", <<tool, name, config>>)>>

\* The shell could not be started: there is no exit status and no output.
LaunchFailure == [status |-> -1, stdout |-> <<>>, stderr |-> <<>>]

\* What the child process of execSync can do: exit with a status after
\* writing to its standard output and error, or fail to start.
ChildOutcomes ==
  [status : {0, 1}, stdout : {<<>>, s_out}, stderr : {<<>>, s_err}]
  \cup {LaunchFailure}

\* execSync(command): returns the captured stdout when the child exits with
\* status 0, throws an error carrying message, stdout and stderr otherwise.
execSync(command, ch) ==
  IF ch.status = 0
  THEN [threw |-> FALSE, stdout |-> ch.stdout]
  ELSE [threw |-> TRUE,
        message |-> IF ch.status = -1 THEN <<"spawnSync /bin/sh", command>>
                    ELSE <<"Command failed", command>>,
        stdout |-> ch.stdout, stderr |-> ch.stderr]

\* executeShellCommand(command), the child behaving as ch: the try block
\* returns the success result, the catch block the failure result.
executeShellCommandTrustsOutput(command, ch) ==
  LET r == execSync(command, ch)
  IN  IF ~r.threw \/ r.stdout # <<>>
      THEN [type |-> "shell", success |-> TRUE, stdout |-> r.stdout]
      ELSE [type |-> "shell", success |-> FALSE, error |-> r.message,
            stdout |-> r.stdout, stderr |-> r.stderr]

executeShellCommand(command, ch) ==
  LET r == execSync(command, ch)
  IN  IF ~r.threw
      THEN [type |-> "shell", success |-> TRUE, stdout |-> r.stdout]
      ELSE [type |-> "shell", success |-> FALSE, error |-> r.message,
            stdout |-> r.stdout, stderr |-> r.stderr]

\* execSync leaves stdio unset, so it copies the child's stderr to the
\* parent's stderr itself.
execSyncStderr(ch) ==
  IF ch.stderr # <<>> THEN <<Event("stderr", "child_stderr", ch.stderr)>>
  ELSE <<>>

\* How the shell that execSync starts splits a command line: the number of
\* command separators outside quotes, from position k in quoting state q.
RECURSIVE ShellSeparators(_, _, _)
ShellSeparators(s, k, q) ==
  IF k > Len(s) THEN 0
  ELSE IF q = "none"
       THEN IF s[k] = Apostrophe THEN ShellSeparators(s, k + 1, "single")
            ELSE IF s[k] = "\"" THEN ShellSeparators(s, k + 1, "double")
            ELSE (IF s[k] \in {";", "|", "&"} THEN 1 ELSE 0)
                 + ShellSeparators(s, k + 1, "none")
       ELSE IF q = "single"
            THEN ShellSeparators(s, k + 1, IF s[k] = Apostrophe THEN "none" ELSE "single")
            ELSE ShellSeparators(s, k + 1, IF s[k] = "\"" THEN "none" ELSE "double")

\* The number of commands the shell runs for the command line s.
ShellCommandCount(s) == 1 + ShellSeparators(s, 1, "none")

\* The branch main takes for the arguments as and the loaded table cmds: the
\* chain of tests and early returns of the normal execution path.
RouteCommandFirst(as, cmds) ==
  IF Len(as) = 0 \/ as[1] = s_help \/ as[1] = s_dashdashhelp THEN "general_help"
  ELSE IF as[1] = s_version \/ as[1] = s_dashv THEN "version"
  ELSE IF ~Truthy(Get(cmds, as[1])) THEN "unknown_tool"
  ELSE IF Len(as) = 1 THEN "tool_help"
  ELSE IF ~Truthy(Get(Get(cmds, as[1]), as[2]))
  THEN (IF as[2] = s_help THEN "tool_help" ELSE "unknown_command")
  ELSE IF Len(as) > 2 /\ as[3] = s_help THEN "command_help"
  ELSE IF Truthy(Get(Get(Get(cmds, as[1]), as[2]), s_handler)) THEN "handler"
  ELSE IF Truthy(Get(Get(Get(cmds, as[1]), as[2]), s_command)) THEN "shell"
  ELSE "invalid"

Route(as, cmds) ==
  IF Len(as) = 0 \/ as[1] = s_help \/ as[1] = s_dashdashhelp THEN "general_help"
  ELSE IF as[1] = s_version \/ as[1] = s_dashv THEN "version"
  ELSE IF ~Truthy(Get(cmds, as[1])) THEN "unknown_tool"
  ELSE IF Len(as) = 1 \/ (Len(as) > 1 /\ as[2] = s_help) THEN "tool_help"
  ELSE IF ~Truthy(Get(Get(cmds, as[1]), as[2])) THEN "unknown_command"
  ELSE IF Len(as) > 2 /\ as[3] = s_help THEN "command_help"
  ELSE IF Truthy(Get(Get(Get(cmds, as[1]), as[2]), s_handler)) THEN "handler"
  ELSE IF Truthy(Get(Get(Get(cmds, as[1]), as[2]), s_command)) THEN "shell"
  ELSE "invalid"

toolName == argv[1]

toolCommands == Get(commands, argv[1])

commandName == argv[2]

\* With the phrase lookup of main live: a phrase of some tool that equals the
\* joined arguments selects the descriptor.
commandPhraseFirst ==
  LET phrase == Join(argv, s_space)
      hits == {t \in Keys(nlCommands) : phrase \in Keys(Get(nlCommands, t))}
  IN  IF hits # {}
      THEN LET t == CHOOSE t \in hits : TRUE
           IN  Get(Get(commands, t), Get(Get(nlCommands, t), phrase).val)
      ELSE Get(toolCommands, argv[2])

command == Get(toolCommands, argv[2])

NoInfo == [pending |-> TRUE]

NoResult == [type |-> "none"]

NoChild == [status |-> -2, stdout |-> <<>>, stderr |-> <<>>]

\* executeCommand of shared/utils.ts for a CommandInfo ci: the handler is
\* tested first, then the template.
executeCommand(ci) ==
  LET handlerExecuted == <<"H", "a", "n", "d", "l", "e", "r", " ", "e", "x", "e", "c",
                           "u", "t", "e", "d", ":", " ">>
      commandExecuted == <<"C", "o", "m", "m", "a", "n", "d", " ", "e", "x", "e", "c",
                           "u", "t", "e", "d", ":", " ">>
  IN  IF ~Truthy(ci.config) THEN [error |-> <<"Invalid command configuration">>]
      ELSE IF Truthy(Get(ci.config, s_handler))
      THEN [type |-> "handler", success |-> TRUE,
            result |-> handlerExecuted \o Get(ci.config, s_handler).val]
      ELSE IF Truthy(Get(ci.config, s_command))
      THEN [type |-> "shell", success |-> TRUE,
            result |-> commandExecuted
                       \o formatCommandShared(Get(ci.config, s_command).val, ci.args)]
      ELSE [error |-> <<"Command configuration is invalid">>]

\* No file of that name.
NoFile == [exists |-> FALSE, lines |-> <<>>]

NoEnv == [local |-> FALSE, project |-> FALSE, package |-> FALSE, test |-> FALSE]

\* None of the programs that edit the shell configuration file runs.
InstallIdle ==
  /\ op = "none"
  /\ env = NoEnv
  /\ sharedDir = "unset"
  /\ rc = NoFile
  /\ rcInit = NoFile
  /\ rcFirst = NoFile
  /\ backup = NoFile
  /\ ipc = "idle"
  /\ run = 0
  /\ written = FALSE
  /\ iexit = -1

\* The shared resolver applied to the invocation's arguments and table.  It
\* is a pure function of both, so a run applies it once, before main starts;
\* main then handles the same arguments.
ParseArgs ==
  /\ pc = "start"
  /\ "pending" \in DOMAIN info
  /\ info' = parseCommandArgs(argv, loadCommands(yamlCommands))
  /\ sharedExec' = IF "args" \in DOMAIN info' /\ "config" \in DOMAIN info'
                   THEN executeCommand(info')
                   ELSE NoResult
  /\ UNCHANGED <<argv, yamlCommands, yamlPhrases, pc, commands, nlCommands,
                 out, executed, execResult, exitCode, child>>
  /\ UNCHANGED <<fvars, ivars>>

FinishIgnoresCode(events, code) ==
  /\ out' = out \o events
  /\ exitCode' = 0
  /\ pc' = "done"

Finish(events, code) ==
  /\ out' = out \o events
  /\ exitCode' = code
  /\ pc' = "done"

\* main: `install-alias` is handed to the commander program.
MainInstallAlias ==
  /\ pc = "start"
  /\ "pending" \notin DOMAIN info
  /\ Len(argv) > 0 /\ argv[1] = s_install_alias
  /\ pc' = "install_alias"
  /\ UNCHANGED <<argv, yamlCommands, yamlPhrases, commands, nlCommands, info,
                 out, executed, execResult, exitCode, child>>
  /\ UNCHANGED <<fvars, ivars, sharedExec>>

\* main: `uninstall` is handed to uninstallVibes.
MainUninstall ==
  /\ pc = "start"
  /\ "pending" \notin DOMAIN info
  /\ Len(argv) > 0 /\ argv[1] = s_uninstall
  /\ pc' = "uninstall"
  /\ UNCHANGED <<argv, yamlCommands, yamlPhrases, commands, nlCommands, info,
                 out, executed, execResult, exitCode, child>>
  /\ UNCHANGED <<fvars, ivars, sharedExec>>

\* Object.keys(commands).length === 0
LoadFailedNever(cmds) == FALSE

LoadFailed(cmds) == Keys(cmds) = {}

\* main: load both tables; an empty command table is fatal.
MainLoad ==
  /\ pc = "start"
  /\ "pending" \notin DOMAIN info
  /\ ~(Len(argv) > 0 /\ argv[1] \in {s_install_alias, s_uninstall})
  /\ commands' = loadCommands(yamlCommands)
  /\ nlCommands' = loadNaturalLanguageCommands(yamlPhrases)
  /\ IF LoadFailed(commands')
     THEN Finish(LoaderLog(yamlCommands, "commands")
                 \o LoaderLog(yamlPhrases, "natural language commands")
                 \o <<Event("log", "error", <<"Failed to load command definitions">>),
                      Event("stderr", "load_error", <<"Failed to load command definitions">>)>>, 1)
     ELSE /\ out' = out \o LoaderLog(yamlCommands, "commands")
                        \o LoaderLog(yamlPhrases, "natural language commands")
          /\ pc' = "resolve"
          /\ UNCHANGED exitCode
  /\ UNCHANGED <<argv, yamlCommands, yamlPhrases, info, executed, execResult, child>>
  /\ UNCHANGED <<fvars, ivars, sharedExec>>

Unchanged ==
  /\ UNCHANGED <<argv, yamlCommands, yamlPhrases, commands, nlCommands, info,
                 executed, execResult, child>>
  /\ UNCHANGED <<fvars, ivars, sharedExec>>

MainGeneralHelp ==
  /\ pc = "resolve"
  /\ Route(argv, commands) = "general_help"
  /\ Finish(printGeneralHelp(commands), 0)
  /\ Unchanged

MainVersion ==
  /\ pc = "resolve"
  /\ Route(argv, commands) = "version"
  /\ Finish(<<Event("stdout", "version", CLI_VERSION)>>, 0)
  /\ Unchanged

MainUnknownTool ==
  /\ pc = "resolve"
  /\ Route(argv, commands) = "unknown_tool"
  /\ Finish(<<Event("log", "error", <<"Unknown tool or command", Join(argv, s_space)>>),
              Event("stderr", "unknown_tool", Join(argv, s_space))>>
            \o printGeneralHelp(commands), 1)
  /\ Unchanged

MainToolHelp ==
  /\ pc = "resolve"
  /\ Route(argv, commands) = "tool_help"
  /\ Finish(printToolHelp(toolName, toolCommands), 0)
  /\ Unchanged

MainUnknownCommand ==
  /\ pc = "resolve"
  /\ Route(argv, commands) = "unknown_command"
  /\ Finish(<<Event("log", "error", <<"Unknown command", toolName, commandName>>),
              Event("stderr", "unknown_command", <<toolName, commandName>>)>>
            \o printToolHelp(toolName, toolCommands), 1)
  /\ Unchanged

MainCommandHelp ==
  /\ pc = "resolve"
  /\ Route(argv, commands) = "command_help"
  /\ Finish(printCommandHelp(toolName, commandName, command), 0)
  /\ Unchanged

\* The handler branch: a placeholder that only prints the handler's name.
MainHandlerAlsoRunsTemplate ==
  /\ pc = "resolve"
  /\ Route(argv, commands) = "handler"
  /\ out' = out \o <<Event("stdout", "handler", Get(command, s_handler).val)>>
  /\ IF Truthy(Get(command, s_command))
     THEN \E ch \in ChildOutcomes :
            LET finalCommand ==
                  formatCommand(Get(command, s_command).val, SubSeq(argv, 3, Len(argv)))
            IN  /\ executed' = Append(executed, finalCommand)
                /\ child' = ch
                /\ execResult' = executeShellCommand(finalCommand, ch)
     ELSE UNCHANGED <<executed, child, execResult>>
  /\ exitCode' = 0
  /\ pc' = "done"
  /\ UNCHANGED <<argv, yamlCommands, yamlPhrases, commands, nlCommands, info>>
  /\ UNCHANGED <<fvars, ivars, sharedExec>>

MainHandler ==
  /\ pc = "resolve"
  /\ Route(argv, commands) = "handler"
  /\ Finish(<<Event("stdout", "handler", Get(command, s_handler).val)>>, 0)
  /\ Unchanged

\* The template branch: format the template with cliArgs.slice(2) and run it.
MainShellSliceOne ==
  /\ pc = "resolve"
  /\ Route(argv, commands) = "shell"
  /\ \E ch \in ChildOutcomes :
       LET cmdTemplate == Get(command, s_command).val
           finalCommand == formatCommand(cmdTemplate, SubSeq(argv, 2, Len(argv)))
       IN  /\ executed' = Append(executed, finalCommand)
           /\ child' = ch
           /\ execResult' = executeShellCommand(finalCommand, ch)
           /\ out' = out \o execSyncStderr(ch)
  /\ pc' = "report"
  /\ UNCHANGED <<argv, yamlCommands, yamlPhrases, commands, nlCommands, info,
                 exitCode>>
  /\ UNCHANGED <<fvars, ivars, sharedExec>>

MainShell ==
  /\ pc = "resolve"
  /\ Route(argv, commands) = "shell"
  /\ \E ch \in ChildOutcomes :
       LET cmdTemplate == Get(command, s_command).val
           finalCommand == formatCommand(cmdTemplate, SubSeq(argv, 3, Len(argv)))
       IN  /\ executed' = Append(executed, finalCommand)
           /\ child' = ch
           /\ execResult' = executeShellCommand(finalCommand, ch)
           /\ out' = out \o execSyncStderr(ch)
  /\ pc' = "report"
  /\ UNCHANGED <<argv, yamlCommands, yamlPhrases, commands, nlCommands, info,
                 exitCode>>
  /\ UNCHANGED <<fvars, ivars, sharedExec>>

\* What main writes for the result of executeShellCommand.
ReportEvents(res) ==
  IF res.success
  THEN IF res.stdout # <<>> THEN <<Event("stdout", "child_stdout", res.stdout)>>
       ELSE <<>>
  ELSE <<Event("stderr", "exec_error", res.error)>>
       \o (IF res.stderr # <<>> THEN <<Event("stderr", "child_stderr", res.stderr)>>
           ELSE <<>>)

MainReportRetries ==
  /\ pc = "report"
  /\ IF ~execResult.success /\ Len(executed) < 2
     THEN /\ out' = out \o ReportEvents(execResult)
          /\ pc' = "resolve"
          /\ UNCHANGED exitCode
     ELSE Finish(ReportEvents(execResult), IF execResult.success THEN 0 ELSE 1)
  /\ Unchanged

MainReport ==
  /\ pc = "report"
  /\ Finish(ReportEvents(execResult), IF execResult.success THEN 0 ELSE 1)
  /\ Unchanged

MainInvalid ==
  /\ pc = "resolve"
  /\ Route(argv, commands) = "invalid"
  /\ Finish(<<Event("stderr", "invalid_config", <<"Invalid command configuration">>)>>, 1)
  /\ Unchanged

----------------------------------------------------------------------------
\* Inputs of the formatter specification.

TemplateChars == {"{", "}", "0", "1"}

ArgValues == {<<"m">>, <<"{", "1", "}">>, <<";", "r">>, <<"$", "&">>}

SeqsUpTo(S, n) == UNION {[1..k -> S] : k \in 0..n}

\* The cases of the test suite of the formatter.
TestCases ==
  { <<t_test_commit, <<s_fixed>> >>,
    <<t_test_two, <<s_checkout, s_main>> >>,
    <<t_git_status, <<>> >>,
    <<t_test_missing, <<s_main>> >> }

FormatInputs ==
  (SeqsUpTo(TemplateChars, MaxTemplateLen) \X SeqsUpTo(ArgValues, MaxArgs))
  \cup TestCases

InitFormat ==
  /\ \E in \in FormatInputs : template = in[1] /\ args = in[2]
  /\ result = <<>>
  /\ mask = <<>>
  /\ resultShared = <<>>
  /\ fpc = "input"
  /\ argv = <<>>
  /\ yamlCommands = Unreadable
  /\ yamlPhrases = Unreadable
  /\ pc = "idle"
  /\ commands = Undefined
  /\ nlCommands = Undefined
  /\ info = NoInfo
  /\ out = <<>>
  /\ executed = <<>>
  /\ execResult = NoResult
  /\ exitCode = -1
  /\ child = NoChild
  /\ sharedExec = NoResult
  /\ InstallIdle

\* One call formatCommand(template, args).
FormatAppendsSurplus ==
  /\ fpc = "input"
  /\ result' = FormatTrace(template, args).text
                \o Join(SubSeq(args, Len(MatchAll(template)) + 1, Len(args)), s_space)
  /\ mask' = FormatTrace(template, args).mask
  /\ resultShared' = formatCommandShared(template, args)
  /\ fpc' = "done"
  /\ UNCHANGED <<template, args>>
  /\ UNCHANGED <<cvars, ivars>>

Format ==
  /\ fpc = "input"
  /\ result' = FormatTrace(template, args).text
  /\ mask' = FormatTrace(template, args).mask
  /\ resultShared' = formatCommandShared(template, args)
  /\ fpc' = "done"
  /\ UNCHANGED <<template, args>>
  /\ UNCHANGED <<cvars, ivars>>

NextFormat == Format

SpecFormat == InitFormat /\ [][NextFormat]_vars

----------------------------------------------------------------------------
\* Inputs and specification of one invocation of the command line.

\* Tokens for the tool and command positions of the command line.
HeadTokens ==
  {s_git, s_status, s_st, s_checkout, s_activate, s_broken, s_both, s_help,
   s_dashdashhelp, s_dashh, s_version, s_dashv, s_dockerz, s_check, s_npm,
   s_constructor, s_install_alias, s_uninstall}

\* Tokens for the argument positions.
ArgTokens == {s_help, s_main, s_inject, s_status}

ArgvInputs ==
  SeqsUpTo(HeadTokens, 1)
  \cup {h \o t : h \in [1..2 -> HeadTokens], t \in SeqsUpTo(ArgTokens, MaxArgv - 2)}

Init ==
  /\ argv \in ArgvInputs
  /\ yamlCommands \in {Unreadable, Malformed, Undefined, TableValid, TableInvalid}
  /\ yamlPhrases \in {Unreadable, Malformed, PhraseTable}
  /\ pc = "start"
  /\ commands = Undefined
  /\ nlCommands = Undefined
  /\ info = NoInfo
  /\ out = <<>>
  /\ executed = <<>>
  /\ execResult = NoResult
  /\ exitCode = -1
  /\ child = NoChild
  /\ sharedExec = NoResult
  /\ InstallIdle
  /\ template = <<>>
  /\ args = <<>>
  /\ result = <<>>
  /\ mask = <<>>
  /\ resultShared = <<>>
  /\ fpc = "idle"

Next ==
  \/ ParseArgs
  \/ MainInstallAlias
  \/ MainUninstall
  \/ MainLoad
  \/ MainGeneralHelp
  \/ MainVersion
  \/ MainUnknownTool
  \/ MainToolHelp
  \/ MainUnknownCommand
  \/ MainCommandHelp
  \/ MainHandler
  \/ MainShell
  \/ MainReport
  \/ MainInvalid

Spec == Init /\ [][Next]_vars

----------------------------------------------------------------------------
\* The programs that edit the shell configuration file: the install-alias
\* action and getSharedDir of the Node entry point, uninstallVibes, and
\* update_shell_config of the shell installer and uninstaller.  A file is the
\* list of lines content.split('\n') yields, so a file that ends with a
\* newline has an empty last line.

brandingComment1 ==
  <<"#", "=", "=", "=", "=", "=", "=", "=", "=", "=", "=", "=", "=", "=",
    "=", "=", "=", "=", "=", "=", "=", "=", "=", "=", "=", "=", "=", "=",
    "=", "=", "=", "=", "=", "=", "=", "=">>

brandingComment2 ==
  <<"#", " ", "v", "i", "b", "e", "-", "c", "l", "i", " ", "b", "y", " ",
    "w", "w", "w", ".", "v", "i", "b", "c", "l", "o", "u", "d", ".", "d",
    "e", "v", " ", "2", "0", "2", "5">>

brandingComment3 ==
  <<"#", " ", "h", "t", "t", "p", "s", ":", "/", "/", "w", "w", "w", ".",
    "v", "i", "b", "e", "c", "l", "o", "u", "d", ".", "d", "e", "v", "/",
    "c", "l", "i">>

oldAliasMarkerComment ==
  <<"#", " ", "V", "i", "b", "e", "C", "L", "I", " ", "a", "l", "i", "a",
    "s", "e", "s">>

l_other ==
  <<"e", "x", "p", "o", "r", "t", " ", "A", "=", "1">>

sh_comment ==
  <<"#", " ", "V", "i", "b", "e", " ", "C", "L", "I", " ", "c", "o", "n",
    "f", "i", "g", "u", "r", "a", "t", "i", "o", "n", " ", "-", " ", "A",
    "d", "d", "e", "d", " ", "b", "y", " ", "i", "n", "s", "t", "a", "l",
    "l", "e", "r">>

sh_export ==
  <<"e", "x", "p", "o", "r", "t", " ", "P", "A", "T", "H", "=",
    "\"", "$", "P", "A", "T", "H", ":", "/", "h", "/", ".", "v",
    "i", "b", "e", "-", "t", "o", "o", "l", "s", "/", "c", "l", "i", "/",
    "b", "i", "n", "\"">>

sh_alias ==
  <<"a", "l", "i", "a", "s", " ", "v", "i", "b", "e", "=", Apostrophe, "p",
    "y", "t", "h", "o", "n", " ", "\"", "/", "h", "/", ".", "v",
    "i", "b", "e", "-", "t", "o", "o", "l", "s", "/", "c", "l", "i", "/",
    "b", "i", "n", "/", "v", "i", "b", "e", "\"", Apostrophe>>

p_vibe_tools ==
  <<"v", "i", "b", "e", "-", "t", "o", "o", "l", "s">>

p_vibe_CLI ==
  <<"v", "i", "b", "e", " ", "C", "L", "I">>

\* The line install-alias appends: `source ${<<"/", "h", "/", ".", "v", "i", "b", "e", "c", "l", "o", "u", "d", "/", "c", "l", "i", "/", "v", "i", "b", "e", "_", "c", "l", "i", ".", "s", "h">>}`.
l_source_target ==
  <<"s", "o", "u", "r", "c", "e", " ", "/", "h", "/", ".", "v", "i", "b", "e",
    "c", "l", "o", "u", "d", "/", "c", "l", "i", "/", "v", "i", "b", "e", "_",
    "c", "l", "i", ".", "s", "h">>

l_blank == <<>>

\* brandingComment4 is the same text as brandingComment1.
brandingComment4 == brandingComment1

\* getSharedDir: the first of the three candidate directories that exists,
\* else the mock directory in a test environment, else the embedded one.
getSharedDirPackageFirst(e) ==
  IF e.package THEN "packageShared"
  ELSE IF e.local THEN "localShared"
  ELSE IF e.project THEN "projectShared"
  ELSE IF e.test THEN "mockDir"
  ELSE "embeddedDir"

getSharedDir(e) ==
  IF e.local THEN "localShared"
  ELSE IF e.project THEN "projectShared"
  ELSE IF e.package THEN "packageShared"
  ELSE IF e.test THEN "mockDir"
  ELSE "embeddedDir"

\* String.prototype.includes / grep for a fixed string.
Contains(s, pat) == IndexOf(s, pat) > 0

\* String.prototype.trim (the lines of the model hold no other white space
\* than spaces).
RECURSIVE TrimStart(_)
TrimStart(s) == IF s # <<>> /\ s[1] = " " THEN TrimStart(Tail(s)) ELSE s

RECURSIVE TrimEnd(_)
TrimEnd(s) ==
  IF s # <<>> /\ s[Len(s)] = " " THEN TrimEnd(SubSeq(s, 1, Len(s) - 1)) ELSE s

Trim(s) == TrimEnd(TrimStart(s))

\* The /i flag: both sides are compared in lower case.
ToLower(s) ==
  LET upper == <<"A", "B", "C", "D", "E", "F", "G", "H", "I", "J", "K", "L", "M",
                 "N", "O", "P", "Q", "R", "S", "T", "U", "V", "W", "X", "Y", "Z">>
      lower == <<"a", "b", "c", "d", "e", "f", "g", "h", "i", "j", "k", "l", "m",
                 "n", "o", "p", "q", "r", "s", "t", "u", "v", "w", "x", "y", "z">>
  IN  [k \in 1..Len(s) |->
         IF \E j \in 1..26 : upper[j] = s[k]
         THEN lower[CHOOSE j \in 1..26 : upper[j] = s[k]]
         ELSE s[k]]

\* The positions, from position `from` on, at which pat occurs in s.
Occurrences(s, pat, from) ==
  {i \in from..(Len(s) - Len(pat) + 1) : SubSeq(s, i, i + Len(pat) - 1) = pat}

\* The positions at which a match of \/(vibe_alias\.sh|vibe_cli\.sh) that
\* begins at or after `from` can end.
ScriptEnds(s, from) ==
  LET names == {<<"/", "v", "i", "b", "e", "_", "a", "l", "i", "a", "s", ".", "s", "h">>,
                <<"/", "v", "i", "b", "e", "_", "c", "l", "i", ".", "s", "h">>}
  IN  UNION {{i + Len(n) - 1 : i \in Occurrences(s, n, from)} : n \in names}

\* anyVibeAliasSourcePattern.test(s) with the regular expression's
\* lastIndex li: the expression has the g flag, so the search starts at li,
\* a match leaves lastIndex at its end (the .* is greedy) and a failure
\* resets it to 0.
RegexTest(s, li) ==
  LET source == <<"s", "o", "u", "r", "c", "e", " ">>
      starts == {i \in Occurrences(s, source, li + 1) :
                   ScriptEnds(s, i + Len(source)) # {}}
      first == CHOOSE i \in starts : \A j \in starts : i <= j
      ends == ScriptEnds(s, first + Len(source))
  IN  IF li > Len(s) \/ starts = {} THEN [matched |-> FALSE, lastIndex |-> 0]
      ELSE [matched |-> TRUE,
            lastIndex |-> CHOOSE e \in ends : \A f \in ends : e >= f]

\* lines.filter(...) of install-alias from line k on: && evaluates the
\* regular expression only for a line that is none of the comments.
RECURSIVE InstallFilter(_, _, _)
InstallFilter(lines, k, li) ==
  IF k > Len(lines) THEN <<>>
  ELSE IF Trim(lines[k]) \in {brandingComment1, brandingComment2, brandingComment3,
                              brandingComment4, oldAliasMarkerComment}
  THEN InstallFilter(lines, k + 1, li)
  ELSE LET r == RegexTest(lines[k], li)
       IN  (IF r.matched THEN <<>> ELSE <<lines[k]>>)
           \o InstallFilter(lines, k + 1, r.lastIndex)

\* The loop that drops a blank line that follows a blank line.
RECURSIVE CleanedLines(_, _)
CleanedLines(lines, i) ==
  IF i > Len(lines) THEN <<>>
  ELSE (IF i = 1 \/ Trim(lines[i]) # <<>> \/ Trim(lines[i - 1]) # <<>>
        THEN <<lines[i]>> ELSE <<>>)
       \o CleanedLines(lines, i + 1)

\* while (lines.length > 0 && last line is blank) lines.pop()
RECURSIVE PopBlank(_)
PopBlank(lines) ==
  IF lines # <<>> /\ Trim(lines[Len(lines)]) = <<>>
  THEN PopBlank(SubSeq(lines, 1, Len(lines) - 1))
  ELSE lines

\* The lines install-alias writes for a file read as `lines`.
InstallLines(lines) ==
  LET kept == PopBlank(CleanedLines(InstallFilter(lines, 1, 0), 1))
  IN  (IF kept # <<>> /\ Trim(kept[Len(kept)]) # <<>> THEN kept \o <<l_blank>>
       ELSE kept)
      \o <<brandingComment1, brandingComment2, brandingComment3, brandingComment4,
           l_source_target, l_blank>>

\* fs.writeFileSync(rcFile, lines.join('\n')) read back with split('\n'):
\* the same lines, and one empty line for an empty list.
FileOf(lines) ==
  [exists |-> TRUE, lines |-> IF lines = <<>> THEN <<l_blank>> ELSE lines]

\* fs.readFileSync(rcFile).split('\n'), [] for a missing file.
LinesOf(file) == IF file.exists THEN file.lines ELSE <<>>

\* install-alias up to the script path: getSharedDir is called for it.
IaStart ==
  /\ op = "install"
  /\ ipc = "start"
  /\ sharedDir' = getSharedDir(env)
  /\ ipc' = "dir"
  /\ UNCHANGED <<op, env, rcInit, rcFirst, run>>
  /\ UNCHANGED <<rc, backup, written, iexit>>
  /\ UNCHANGED <<fvars, cvars>>

\* Ensure the target directory exists; a failure exits 1.
IaEnsureDir ==
  /\ op = "install"
  /\ ipc = "dir"
  /\ \E ok \in BOOLEAN :
       IF ok THEN ipc' = "copy" /\ UNCHANGED iexit ELSE (ipc' = "dir_failed" /\ iexit' = 1)
  /\ UNCHANGED <<op, env, rcInit, rcFirst, run>>
  /\ UNCHANGED <<sharedDir, rc, backup, written>>
  /\ UNCHANGED <<fvars, cvars>>

\* Copy the alias script; a failure exits 1.
IaCopyScript ==
  /\ op = "install"
  /\ ipc = "copy"
  /\ \E ok \in BOOLEAN :
       IF ok THEN ipc' = "backup" /\ UNCHANGED iexit ELSE (ipc' = "copy_failed" /\ iexit' = 1)
  /\ UNCHANGED <<op, env, rcInit, rcFirst, run>>
  /\ UNCHANGED <<sharedDir, rc, backup, written>>
  /\ UNCHANGED <<fvars, cvars>>

\* Back the configuration file up when it exists; a failed copy exits 1.
IaBackupIgnoresFailure ==
  /\ op = "install"
  /\ ipc = "backup"
  /\ IF rc.exists
     THEN \E ok \in BOOLEAN :
            /\ backup' = IF ok THEN rc ELSE NoFile
            /\ ipc' = "rewrite"
            /\ UNCHANGED iexit
     ELSE /\ ipc' = "rewrite"
          /\ UNCHANGED <<backup, iexit>>
  /\ UNCHANGED <<op, env, rcInit, rcFirst, run>>
  /\ UNCHANGED <<sharedDir, rc, written>>
  /\ UNCHANGED <<fvars, cvars>>

IaBackup ==
  /\ op = "install"
  /\ ipc = "backup"
  /\ IF rc.exists
     THEN \E ok \in BOOLEAN :
            IF ok THEN /\ backup' = rc
                       /\ ipc' = "rewrite"
                       /\ UNCHANGED iexit
            ELSE /\ (ipc' = "backup_failed" /\ iexit' = 1)
                 /\ UNCHANGED backup
     ELSE /\ ipc' = "rewrite"
          /\ UNCHANGED <<backup, iexit>>
  /\ UNCHANGED <<op, env, rcInit, rcFirst, run>>
  /\ UNCHANGED <<sharedDir, rc, written>>
  /\ UNCHANGED <<fvars, cvars>>

\* Rewrite the lines and write the file.  A failed write leaves the file as
\* it was or truncated, and exits 1 with the backup in place.
IaWrite ==
  /\ op = "install"
  /\ ipc = "rewrite"
  /\ \E ok \in BOOLEAN :
       IF ok
       THEN /\ rc' = FileOf(InstallLines(LinesOf(rc)))
            /\ written' = TRUE
            /\ IF backup.exists
               THEN ipc' = "cleanup" /\ UNCHANGED iexit
               ELSE ipc' = "done" /\ iexit' = 0
       ELSE /\ rc' \in {rc, FileOf(<<>>)}
            /\ (ipc' = "write_failed" /\ iexit' = 1)
            /\ UNCHANGED written
  /\ UNCHANGED <<op, env, rcInit, rcFirst, run>>
  /\ UNCHANGED <<sharedDir, backup>>
  /\ UNCHANGED <<fvars, cvars>>

\* Delete the backup; a failure only warns.
IaCleanup ==
  /\ op = "install"
  /\ ipc = "cleanup"
  /\ \E ok \in BOOLEAN : backup' = IF ok THEN NoFile ELSE backup
  /\ ipc' = "done"
  /\ iexit' = 0
  /\ UNCHANGED <<op, env, rcInit, rcFirst, run>>
  /\ UNCHANGED <<sharedDir, rc, written>>
  /\ UNCHANGED <<fvars, cvars>>

\* The user runs install-alias a second time: a new process, whose backup
\* file has a new name.
IaAgain ==
  /\ op = "install"
  /\ ipc = "done"
  /\ run = 1
  /\ run' = 2
  /\ rcFirst' = rc
  /\ backup' = NoFile
  /\ written' = FALSE
  /\ sharedDir' = "unset"
  /\ ipc' = "start"
  /\ iexit' = -1
  /\ UNCHANGED <<op, env, rc, rcInit>>
  /\ UNCHANGED <<fvars, cvars>>

\* /^# vibe-cli by .*vibcloud\.dev.*$/i
vibeCliBrandingPattern(s) ==
  LET t == ToLower(s)
      prefix == <<"#", " ", "v", "i", "b", "e", "-", "c", "l", "i", " ", "b", "y", " ">>
      domain == <<"v", "i", "b", "c", "l", "o", "u", "d", ".", "d", "e", "v">>
  IN  /\ Len(t) >= Len(prefix)
      /\ SubSeq(t, 1, Len(prefix)) = prefix
      /\ Occurrences(t, domain, Len(prefix) + 1) # {}

\* /^# .*vibecloud\.dev\/cli.*$/i
vibeCliUrlPattern(s) ==
  LET t == ToLower(s)
      prefix == <<"#", " ">>
      url == <<"v", "i", "b", "e", "c", "l", "o", "u", "d", ".", "d", "e", "v", "/",
               "c", "l", "i">>
  IN  /\ Len(t) >= Len(prefix)
      /\ SubSeq(t, 1, Len(prefix)) = prefix
      /\ Occurrences(t, url, Len(prefix) + 1) # {}

\* lines.filter(...) of uninstallVibes from line k on: every test is made on
\* the trimmed line, and && reaches the g-flagged expression only for a
\* line that none of the earlier tests removed.
RECURSIVE UninstallFilter(_, _, _)
UninstallFilter(lines, k, li) ==
  IF k > Len(lines) THEN <<>>
  ELSE LET trimmedLine == Trim(lines[k])
       IN  IF \/ trimmedLine = brandingComment1
              \/ trimmedLine = brandingComment4
              \/ vibeCliBrandingPattern(trimmedLine)
              \/ vibeCliUrlPattern(trimmedLine)
              \/ trimmedLine = oldAliasMarkerComment
           THEN UninstallFilter(lines, k + 1, li)
           ELSE LET r == RegexTest(trimmedLine, li)
                IN  (IF r.matched THEN <<>> ELSE <<lines[k]>>)
                    \o UninstallFilter(lines, k + 1, r.lastIndex)

\* uninstallVibes on the configuration file: a missing file is skipped, an
\* error while cleaning is a warning, and the function returns normally.
UninstallVibes ==
  /\ op = "uninstall"
  /\ ipc = "start"
  /\ IF rc.exists
     THEN \E ok \in BOOLEAN :
            IF ok
            THEN /\ rc' = LET kept == PopBlank(CleanedLines(
                                       UninstallFilter(LinesOf(rc), 1, 0), 1))
                        IN  FileOf(IF kept # <<>> THEN kept \o <<l_blank>>
                                   ELSE kept)
                 /\ written' = TRUE
            ELSE /\ rc' \in {rc, FileOf(<<>>)}
                 /\ UNCHANGED written
     ELSE UNCHANGED <<rc, written>>
  /\ ipc' = "done"
  /\ iexit' = 0
  /\ UNCHANGED <<op, env, rcInit, rcFirst, run>>
  /\ UNCHANGED <<sharedDir, backup>>
  /\ UNCHANGED <<fvars, cvars>>

\* The lines grep reads: the text up to each newline, and a last line
\* without a newline if there is one.
GrepLines(file) ==
  LET ls == LinesOf(file)
  IN  IF ls # <<>> /\ ls[Len(ls)] = <<>> THEN SubSeq(ls, 1, Len(ls) - 1) ELSE ls

\* `>>` of a text given by its pieces between newlines.
AppendText(file, pieces) ==
  LET ls == LinesOf(file)
      n == Len(ls)
  IN  [exists |-> TRUE,
       lines |-> IF n = 0 THEN pieces
                 ELSE SubSeq(ls, 1, n - 1) \o <<ls[n] \o pieces[1]>> \o Tail(pieces)]

\* grep -v "vibe-tools\|vibe CLI\|alias vibe=": the lines containing none
\* of the three strings, letter case included.
GrepV(file) ==
  LET patterns == {p_vibe_tools, p_vibe_CLI,
                   <<"a", "l", "i", "a", "s", " ", "v", "i", "b", "e", "=">>}
  IN  SelectSeq(GrepLines(file), LAMBDA l : ~\E q \in patterns : Contains(l, q))

\* update_shell_config of the installer: a file that mentions vibe-tools is
\* left alone unless --force is given.
ShInstall ==
  /\ op = "shell"
  /\ ipc = "start"
  /\ \E FORCE_INSTALL \in BOOLEAN :
       IF (\E l \in Range(GrepLines(rc)) : Contains(l, p_vibe_tools)) /\ ~FORCE_INSTALL
       THEN UNCHANGED <<rc, written>>
       ELSE /\ rc' = AppendText(rc, <<l_blank, sh_comment, sh_export, sh_alias, l_blank, l_blank>>)
            /\ written' = TRUE
  /\ rcFirst' = rc'
  /\ ipc' = "installed"
  /\ UNCHANGED <<op, env, rcInit, run>>
  /\ UNCHANGED <<sharedDir, backup, iexit>>
  /\ UNCHANGED <<fvars, cvars>>

\* update_shell_config of scripts/uninstall.sh.  The script runs under
\* set -e: grep -v that selects no line exits 1 and ends the script before
\* the file is replaced.
ShUninstall ==
  /\ op = "shell"
  /\ ipc = "installed"
  /\ IF ~rc.exists
        \/ ~\E l \in Range(GrepLines(rc)) :
              Contains(l, p_vibe_tools) \/ Contains(l, p_vibe_CLI)
     THEN UNCHANGED rc /\ iexit' = 0
     ELSE IF GrepV(rc) = <<>>
     THEN UNCHANGED rc /\ iexit' = 1
     ELSE /\ rc' = [exists |-> TRUE, lines |-> GrepV(rc) \o <<l_blank>>]
          /\ iexit' = 0
  /\ ipc' = "done"
  /\ UNCHANGED <<op, env, rcInit, rcFirst, run>>
  /\ UNCHANGED <<sharedDir, backup, written>>
  /\ UNCHANGED <<fvars, cvars>>

\* The lines a configuration file given to the Node programs is made of.
NodeLines ==
  {l_blank, l_other, brandingComment1, brandingComment2, brandingComment3,
   oldAliasMarkerComment, l_source_target,
   <<" ", " ", "e", "c", "h", "o", " ", "h", "i", " ", " ">>,
   <<"s", "o", "u", "r", "c", "e", " ", "a", "/", "v", "i", "b", "e", "_", "a",
     "l", "i", "a", "s", ".", "s", "h">>}

\* The lines a configuration file given to the shell scripts is made of.
ShellLines ==
  {l_blank, l_other, sh_export,
   <<"a", "l", "i", "a", "s", " ", "v", "i", "b", "e", "=", "x">>}

\* One of the three programs that edit the configuration file is started.
InitInstall ==
  /\ op \in {"install", "uninstall", "shell"}
  /\ env \in (IF op = "install"
               THEN [local : BOOLEAN, project : BOOLEAN, package : BOOLEAN,
                     test : BOOLEAN]
               ELSE {NoEnv})
  /\ rc \in {NoFile} \cup
            {[exists |-> TRUE, lines |-> ls] :
               ls \in UNION {[1..n -> IF op = "shell" THEN ShellLines ELSE NodeLines] :
                               n \in 1..MaxRcLines}}
  /\ rcInit = rc
  /\ rcFirst = NoFile
  /\ backup = NoFile
  /\ sharedDir = "unset"
  /\ ipc = "start"
  /\ run = 1
  /\ written = FALSE
  /\ iexit = -1
  /\ template = <<>>
  /\ args = <<>>
  /\ result = <<>>
  /\ mask = <<>>
  /\ resultShared = <<>>
  /\ fpc = "idle"
  /\ argv = <<>>
  /\ yamlCommands = Unreadable
  /\ yamlPhrases = Unreadable
  /\ pc = "idle"
  /\ commands = Undefined
  /\ nlCommands = Undefined
  /\ info = NoInfo
  /\ out = <<>>
  /\ executed = <<>>
  /\ execResult = NoResult
  /\ exitCode = -1
  /\ child = NoChild
  /\ sharedExec = NoResult

NextInstall ==
  \/ IaStart
  \/ IaEnsureDir
  \/ IaCopyScript
  \/ IaBackup
  \/ IaWrite
  \/ IaCleanup
  \/ IaAgain
  \/ UninstallVibes
  \/ ShInstall
  \/ ShUninstall

SpecInstall == InitInstall /\ [][NextInstall]_vars

\* C22: getSharedDir returns the first existing candidate in the order
\* local development path, project-root path, installed-package path; with
\* none of them it returns the mock directory in test mode and the embedded
\* resources path otherwise.
SharedDirOrder ==
  (op = "install" /\ sharedDir # "unset") =>
    /\ env.local => sharedDir = "localShared"
    /\ (~env.local /\ env.project) => sharedDir = "projectShared"
    /\ (~env.local /\ ~env.project /\ env.package) => sharedDir = "packageShared"
    /\ (~env.local /\ ~env.project /\ ~env.package /\ env.test) =>
         sharedDir = "mockDir"
    /\ (~env.local /\ ~env.project /\ ~env.package /\ ~env.test) =>
         sharedDir = "embeddedDir"

SharedDirOrderWitness ==
  /\ op = "install"
  /\ sharedDir = "projectShared"
  /\ env.project /\ env.package /\ ~env.local

\* A line is a Vibe line: a line sourcing vibe_alias.sh or vibe_cli.sh, the
\* old marker comment or a line of the branding block.
IsSourceLine(l) == RegexTest(l, 0).matched

IsVibeLine(l) ==
  \/ IsSourceLine(l)
  \/ Trim(l) \in {oldAliasMarkerComment, brandingComment1, brandingComment2,
                  brandingComment3, brandingComment4}

\* C23: after uninstallVibes has rewritten an existing configuration file,
\* no remaining line is a vibe alias source line, the marker comment or a
\* branding comment line.
UninstallRemovesAliases ==
  (op = "uninstall" /\ ipc = "done" /\ written) =>
    \A l \in Range(rc.lines) : ~IsVibeLine(l)

\* The lines the installer added.
InstallerLines == {sh_comment, sh_export, sh_alias}

\* The lines of a file that are not blank, in order.
NonBlank(ls) == SelectSeq(ls, LAMBDA l : Trim(l) # <<>>)

\* C24: after the uninstaller's update_shell_config has run on a file the
\* installer's update_shell_config appended to, none of the lines the
\* installer added remains and every other line is kept.
ShellUninstallRemoves ==
  (op = "shell" /\ ipc = "done" /\ written) =>
    /\ \A l \in Range(rc.lines) : l \notin InstallerLines
    /\ NonBlank(rc.lines) = NonBlank(LinesOf(rcInit))

\* The configuration file as the current run of install-alias found it.
RunStartRc == IF run = 1 THEN rcInit ELSE rcFirst

\* A step of install-alias that changes an existing configuration file is
\* taken with a backup copy of the file in place.
WriteHasBackup ==
  (op = "install" /\ rc' # rc /\ rc.exists) =>
    (backup.exists /\ backup.lines = rc.lines)

\* The backup disappears only in a step taken after the write succeeded.
DeletedAfterWrite ==
  (op = "install" /\ backup.exists /\ ~backup'.exists) => written

\* A failed backup exits 1 with the file untouched; from the rewrite on,
\* and after a failed write, the backup of an existing file exists.
BackupStates ==
  /\ (op = "install" /\ ipc = "backup_failed") =>
       (iexit = 1 /\ rc = RunStartRc /\ ~written /\ ~backup.exists)
  /\ (op = "install" /\ ipc = "write_failed" /\ RunStartRc.exists) =>
       (iexit = 1 /\ ~written /\ backup.exists /\ backup.lines = RunStartRc.lines)
  /\ (op = "install" /\ ipc \in {"rewrite", "cleanup"} /\ RunStartRc.exists) =>
       (backup.exists /\ backup.lines = RunStartRc.lines)

\* C29: when the configuration file exists, install-alias never writes it
\* unless a backup copy was created first (a backup failure exits 1 with the
\* file untouched), the backup is deleted only after the file was written
\* successfully, and after a failed write the backup still exists.
BackupOrdering ==
  /\ []BackupStates
  /\ [][WriteHasBackup /\ DeletedAfterWrite]_vars

BackupOrderingWitness ==
  /\ op = "install"
  /\ ipc = "write_failed"
  /\ rcInit.exists
  /\ backup.exists
  /\ rc # rcInit

\* The number of lines of ls that satisfy a test.
BrandingBlocks(ls) ==
  Cardinality({k \in 1..(Len(ls) - 3) :
                 /\ ls[k] = brandingComment1
                 /\ ls[k + 1] = brandingComment2
                 /\ ls[k + 2] = brandingComment3
                 /\ ls[k + 3] = brandingComment4})

SourceLines(ls) == Cardinality({k \in 1..Len(ls) : IsSourceLine(ls[k])})

\* The lines of a file that are neither blank nor Vibe lines, in order.
UserLines(ls) == SelectSeq(ls, LAMBDA l : Trim(l) # <<>> /\ ~IsVibeLine(l))

\* C30: running install-alias twice leaves the configuration file as
\* running it once does; the result holds exactly one branding block and
\* exactly one line sourcing a vibe alias script, and keeps the other
\* non-blank lines of the original file in their order.
InstallIdempotent ==
  (op = "install" /\ ipc = "done") =>
    /\ BrandingBlocks(rc.lines) = 1
    /\ SourceLines(rc.lines) = 1
    /\ UserLines(rc.lines) = UserLines(LinesOf(rcInit))
    /\ run = 2 => rc = rcFirst

----------------------------------------------------------------------------
\* Properties of the formatter.

NumPlaceholders == Len(MatchSpans(template, 1))

\* The text a purely positional substitution yields: the template's
\* placeholders, in scan order, each replaced by its argument if there is one.
RECURSIVE Positional(_, _, _, _)
Positional(s, p, as, i) ==
  IF p > Len(s) THEN <<>>
  ELSE IF MatchEnd(s, p) > 0
       THEN (IF i <= Len(as) THEN as[i] ELSE SubSeq(s, p, MatchEnd(s, p)))
            \o Positional(s, MatchEnd(s, p) + 1, as, i + 1)
       ELSE <<s[p]>> \o Positional(s, p + 1, as, i)

\* C2: the i-th placeholder in scan order is replaced with args[i] whenever
\* i < len(args), whatever the template and the arguments.
PositionalSubstitution ==
  fpc = "done" => result = Positional(template, 1, args, 1)

\* C3: when the template has more placeholders than there are arguments, the
\* template from its first placeholder without an argument onwards is the
\* tail of the output, so every such placeholder appears verbatim; and
\* format("git checkout {0} {1}", ["main"]) = "git checkout main {1}".
MissingArgumentPassthrough ==
  /\ (fpc = "done" /\ NumPlaceholders > Len(args)) =>
       LET s == MatchSpans(template, 1)[Len(args) + 1][1]
           n == Len(template) - s + 1
       IN  /\ Len(result) >= n
           /\ SubSeq(result, Len(result) - n + 1, Len(result))
                = SubSeq(template, s, Len(template))
  /\ (fpc = "done" /\ template = t_test_missing /\ args = <<s_main>>) =>
       result = r_test_missing

\* C3 witness: a call with a substituted argument and a placeholder left over.
MissingArgumentWitness ==
  /\ fpc = "done"
  /\ Len(args) >= 1
  /\ NumPlaceholders > Len(args)
  /\ result # template

\* The characters of text that a replacement inserted.
RECURSIVE Inserted(_, _, _)
Inserted(text, m, k) ==
  IF k > Len(text) THEN <<>>
  ELSE (IF m[k] THEN <<text[k]>> ELSE <<>>) \o Inserted(text, m, k + 1)

RECURSIVE Concat(_, _)
Concat(ss, n) == IF n = 0 THEN <<>> ELSE Concat(ss, n - 1) \o ss[n]

Min(a, b) == IF a <= b THEN a ELSE b

\* C4: the text inserted from the arguments appears unchanged in the output
\* and is never the target of a later replacement: the inserted characters
\* of the output are exactly the substituted arguments, in order.
NoNestedSubstitution ==
  fpc = "done" =>
    Inserted(result, mask, 1) = Concat(args, Min(Len(args), NumPlaceholders))

----------------------------------------------------------------------------
\* Properties of one invocation of the command line.

HasEvent(kind) == \E k \in 1..Len(out) : out[k].kind = kind

Parsed == "pending" \notin DOMAIN info

\* The table main works with once it has loaded it.
LoadedTable == loadCommands(yamlCommands)

HelpTokens == {s_help, s_dashdashhelp, s_dashh}

VersionTokens == {s_version, s_dashv}

\* C1: the string formatCommand produces and main hands to
\* executeShellCommand makes the shell run no more commands than the template
\* itself holds, whatever shell metacharacters the argument values contain.
InjectionSafety ==
  executed # <<>> =>
    ShellCommandCount(executed[1]) = ShellCommandCount(Get(command, s_command).val)

\* C5: when the first token is not a tool of the loaded table and not a help
\* or version token, the resolver returns an unknown-tool error with the
\* general-help fallback, and main prints the error and the general help and
\* exits 1, without tool help and without executing anything.
UnknownToolFallback ==
  (/\ Keys(LoadedTable) # {}
   /\ Len(argv) >= 1
   /\ argv[1] \notin Keys(LoadedTable)
   /\ argv[1] \notin HelpTokens \cup VersionTokens) =>
     /\ Parsed => /\ "error" \in DOMAIN info
                  /\ info.error[1] = "Unknown tool"
                  /\ "showHelp" \in DOMAIN info
     /\ pc \in {"start", "resolve", "done"}
     /\ pc = "done" => /\ exitCode = 1
                       /\ HasEvent("unknown_tool")
                       /\ HasEvent("general_help")
                       /\ ~HasEvent("tool_help")
                       /\ executed = <<>>

\* C6: an empty argv, or a first token help, --help or -h, resolves to the
\* general-help result: no error, general help printed, nothing executed.
GeneralHelpResolution ==
  (/\ Keys(LoadedTable) # {}
   /\ (Len(argv) = 0 \/ argv[1] \in HelpTokens)) =>
     /\ Parsed => /\ "showHelp" \in DOMAIN info
                  /\ "error" \notin DOMAIN info
     /\ pc = "done" => /\ exitCode = 0
                       /\ HasEvent("general_help")
                       /\ ~HasEvent("unknown_tool")
                       /\ executed = <<>>

\* The alias set of a descriptor.
Aliases(d) ==
  IF Get(d, s_aliases).tag = "array" THEN Range(Get(d, s_aliases).val) ELSE {}

\* The commands of tool table tc that carry name as an alias.
AliasTargets(tc, name) == {c \in Keys(tc) : name \in Aliases(Get(tc, c))}

\* C7: when argv[0] is a known tool and argv[1] is not one of its command
\* names but an alias of one of its descriptors, resolution yields that
\* descriptor instead of an unknown-command error.
AliasResolution ==
  (/\ Len(argv) >= 2
   /\ argv[1] \in Keys(LoadedTable)
   /\ argv[2] \notin Keys(Get(LoadedTable, argv[1]))
   /\ argv[2] # s_help
   /\ AliasTargets(Get(LoadedTable, argv[1]), argv[2]) # {}) =>
     /\ Parsed => /\ "error" \notin DOMAIN info
                  /\ "config" \in DOMAIN info
                  /\ \E c \in AliasTargets(Get(LoadedTable, argv[1]), argv[2]) :
                       info.config = Get(Get(LoadedTable, argv[1]), c)
     /\ pc = "done" => ~HasEvent("unknown_command")

\* C8: with git.status in the command table and git: {"check status":
\* "status"} in the phrase table, the tokens ["check", "status"] resolve to
\* the descriptor of ["git", "status"], with no positional arguments: its
\* template is what gets executed.
NaturalLanguageResolution ==
  (/\ argv = <<s_check, s_status>>
   /\ Truthy(Get(Get(LoadedTable, s_git), s_status))
   /\ Truthy(Get(Get(loadNaturalLanguageCommands(yamlPhrases), s_git), s_check_status))
   /\ pc = "done") =>
     /\ ~HasEvent("unknown_tool")
     /\ executed = <<formatCommand(Get(Get(Get(LoadedTable, s_git), s_status), s_command).val, <<>>)>>

\* A descriptor must have exactly one of a template and a handler.
InvalidDescriptor(d) == Truthy(Get(d, s_command)) = Truthy(Get(d, s_handler))

HasInvalidDescriptor(table) ==
  \E t \in Keys(table) : \E c \in Keys(Get(table, t)) :
    InvalidDescriptor(Get(Get(table, t), c))

\* C9: a table holding a descriptor with neither or both of template and
\* handler fails loudly when it is loaded: no invocation gets past loading
\* to resolve or execute with it.
InvalidDescriptorsRejectedAtLoad ==
  HasInvalidDescriptor(yamlCommands) =>
    \/ pc \in {"start", "install_alias", "uninstall"}
    \/ (pc = "done" /\ HasEvent("load_error") /\ exitCode = 1)

\* C10: when the executed command fails after writing to its standard
\* output, main still writes the captured stdout before it exits 1.
StdoutOnFailure ==
  (/\ pc = "done"
   /\ execResult.type = "shell"
   /\ ~execResult.success
   /\ execResult.stdout # <<>>) =>
     /\ exitCode = 1
     /\ \E k \in 1..Len(out) :
          out[k].kind = "child_stdout" /\ out[k].detail = execResult.stdout

----------------------------------------------------------------------------
\* Names of what an invocation printed.

\* The console output of the invocation, logger messages left out.
Printed == SelectSeq(out, LAMBDA e : e.stream # "log")

Kinds == {out[k].kind : k \in 1..Len(out)}

ResolutionKinds ==
  {"general_help", "version", "unknown_tool", "tool_help", "unknown_command",
   "command_help", "handler", "invalid_config", "exec_error", "child_stdout",
   "child_stderr"}

\* main has called loadCommands.
Loaded == pc \in {"resolve", "report", "done"}

\* C11: whenever loadCommands returned an empty command table, the
\* invocation has printed an error and exited with code 1, and it has printed
\* no help, no version, no tool or command lookup result and has executed
\* nothing.
LoadEmptyIsFatal ==
  (Loaded /\ Keys(commands) = {}) =>
    /\ pc = "done"
    /\ exitCode = 1
    /\ HasEvent("load_error")
    /\ Kinds \cap ResolutionKinds = {}
    /\ executed = <<>>
    /\ execResult = NoResult

LoadEmptyWitness ==
  /\ pc = "done"
  /\ Keys(commands) = {}
  /\ HasEvent("load_error")
  /\ exitCode = 1

FailureKinds == {"unknown_tool", "unknown_command", "invalid_config", "exec_error"}

SuccessKinds == {"general_help", "version", "tool_help", "command_help", "handler"}

\* C12: an invocation that ended in an unknown tool, an unknown command, an
\* invalid descriptor or a failed execution has exit code 1; one that ended
\* in help, version, a handler or a successfully executed command, without
\* any of those failures, has exit code 0.
ExitCodeMapping ==
  pc = "done" =>
    /\ Kinds \cap FailureKinds # {} => exitCode = 1
    /\ (Kinds \cap FailureKinds = {} /\ Kinds \cap SuccessKinds # {}) => exitCode = 0
    /\ (execResult.type = "shell" /\ execResult.success) => exitCode = 0
    /\ (execResult.type = "shell" /\ ~execResult.success) => exitCode = 1

ExitCodeWitness ==
  /\ pc = "done"
  /\ execResult.type = "shell"
  /\ ~execResult.success
  /\ HasEvent("exec_error")
  /\ exitCode = 1

\* argv[0] names a tool of the loaded table.
KnownTool == Len(argv) >= 1 /\ argv[1] \in Keys(LoadedTable)

\* The ToolTable of the tool argv[0] names.
ToolTable == LoadedTable.val[argv[1]]

\* argv[0] and argv[1] name a tool and a command of it.
KnownCommand ==
  KnownTool /\ Len(argv) >= 2 /\ argv[2] \in Keys(ToolTable)

\* The descriptor argv[0] and argv[1] name.
Descriptor == ToolTable.val[argv[2]]

\* C13: for a known tool t, argv [t] and argv [t, help] resolve to tool help
\* for t with t's ToolTable, and the invocation prints exactly the tool help
\* of t and that table, executes nothing and exits 0; what is printed depends
\* on t and the table only, so both forms print the same, also when the tool
\* defines a command named help.
HelpPrecedence ==
  (KnownTool /\ (Len(argv) = 1 \/ (Len(argv) = 2 /\ argv[2] = s_help))) =>
    /\ Parsed => info = [toolHelp |-> argv[1], commands |-> ToolTable]
    /\ pc # "report"
    /\ pc = "done" =>
         /\ Len(Printed) = 1
         /\ Printed[1].kind = "tool_help"
         /\ Printed[1].stream = "stdout"
         /\ Printed[1].detail = <<argv[1], ToolTable>>
         /\ executed = <<>>
         /\ exitCode = 0

HelpPrecedenceWitness ==
  /\ pc = "done"
  /\ argv = <<s_git, s_help>>
  /\ s_help \in Keys(Get(commands, s_git))
  /\ HasEvent("tool_help")
  /\ executed = <<>>

\* C14: when argv[0] is a known tool and argv[1] is not help and not a
\* command of that tool, resolution yields an unknown-command error with the
\* tool-help fallback, and the invocation prints the error and the tool help,
\* executes nothing and exits 1.
UnknownCommandFallback ==
  (KnownTool /\ Len(argv) >= 2 /\ argv[2] # s_help
     /\ argv[2] \notin Keys(ToolTable)) =>
    /\ Parsed => /\ DOMAIN info = {"error", "toolHelp", "commands"}
                 /\ info.toolHelp = argv[1]
                 /\ info.commands = ToolTable
    /\ pc # "report"
    /\ pc = "done" =>
         /\ HasEvent("unknown_command")
         /\ HasEvent("tool_help")
         /\ executed = <<>>
         /\ exitCode = 1

\* What the claims C15 and C16 require of main once a descriptor d is resolved
\* with the positional arguments rest: every executed string is the formatted
\* template, and a descriptor with a template and no handler is executed once.
ExecutesFormatted(d, rest) ==
  /\ \A k \in 1..Len(executed) :
       /\ Truthy(Get(d, s_command))
       /\ executed[k] = formatCommand(Get(d, s_command).val, rest)
  /\ (pc \in {"report", "done"} /\ Truthy(Get(d, s_command))
        /\ ~Truthy(Get(d, s_handler))) => Len(executed) = 1

ResolvedInfo == [tool |-> argv[1], command |-> argv[2], config |-> Descriptor,
                 args |-> SubSeq(argv, 3, Len(argv))]

\* C15 as stated: when argv[0] is a known tool, argv[1] a known command of it
\* and argv[2] is absent or not help, resolution yields the descriptor with
\* args argv[2:], and the executed string is the formatted template.
ResolvedResultAsStated ==
  (KnownCommand /\ (Len(argv) >= 3 => argv[3] # s_help)) =>
    /\ Parsed => info = ResolvedInfo
    /\ ExecutesFormatted(Descriptor, SubSeq(argv, 3, Len(argv)))

\* C15: the same, for argv[1] other than help (help as argv[1] asks for the
\* tool help even when the tool defines a command of that name).
ResolvedResult ==
  (KnownCommand /\ argv[2] # s_help /\ (Len(argv) >= 3 => argv[3] # s_help)) =>
    /\ Parsed => info = ResolvedInfo
    /\ ExecutesFormatted(Descriptor, SubSeq(argv, 3, Len(argv)))

ResolvedResultWitness ==
  /\ pc = "done"
  /\ argv = <<s_git, s_checkout, s_main>>
  /\ KnownCommand
  /\ info = ResolvedInfo
  /\ executed = <<r_test_two>>

CommandHelpOutcome ==
  /\ Parsed => info = [commandHelp |-> TRUE, tool |-> argv[1],
                       command |-> argv[2], config |-> Descriptor]
  /\ pc # "report"
  /\ executed = <<>>
  /\ ~HasEvent("handler")
  /\ pc = "done" =>
       /\ Len(Printed) = 1
       /\ Printed[1].kind = "command_help"
       /\ Printed[1].detail = <<argv[1], argv[2], Descriptor>>
       /\ exitCode = 0

\* C16 as stated: when argv[0] and argv[1] name a known tool and command and
\* argv[2] is help, resolution yields command help with the descriptor and
\* neither a shell command nor a handler is executed.
CommandHelpAsStated ==
  (KnownCommand /\ Len(argv) > 2 /\ argv[3] = s_help) => CommandHelpOutcome

\* C16: the same, for argv[1] other than help.
CommandHelp ==
  (KnownCommand /\ argv[2] # s_help /\ Len(argv) > 2 /\ argv[3] = s_help) =>
    CommandHelpOutcome

CommandHelpWitness ==
  /\ pc = "done"
  /\ argv = <<s_git, s_activate, s_help>>
  /\ HasEvent("command_help")
  /\ exitCode = 0

\* C17: executeShellCommand reports success exactly when the child exited
\* with status 0; after a non-zero exit or a launch failure it reports failure
\* with an error message and the child's captured stdout and stderr; and every
\* call returns its result to main.
ExecutorResult ==
  /\ executed # <<>> => (execResult.type = "shell" /\ pc \in {"report", "done"})
  /\ execResult.type = "shell" =>
       /\ child \in ChildOutcomes
       /\ execResult.success <=> child.status = 0
       /\ execResult.stdout = child.stdout
       /\ ~execResult.success =>
            /\ execResult.error # <<>>
            /\ execResult.stderr = child.stderr

ExecutorResultWitness ==
  /\ execResult.type = "shell"
  /\ child.status = 1
  /\ child.stdout = s_out
  /\ ~execResult.success
  /\ execResult.stdout = s_out

\* How often the handler branch ran.
HandlerRuns == Cardinality({k \in 1..Len(out) : out[k].kind = "handler"})

\* How far main has come.
Rank ==
  CASE pc = "start" /\ ~Parsed -> 0
    [] pc = "start" /\ Parsed -> 1
    [] pc = "resolve" -> 2
    [] pc = "report" -> 3
    [] OTHER -> 4

\* main has a step to take: the template branch can always run (execSync
\* returns whatever the child does), any other branch when its action is
\* enabled.
NotStuck ==
  \/ pc = "resolve" /\ Route(argv, commands) = "shell" /\ ChildOutcomes # {}
  \/ ENABLED (MainGeneralHelp \/ MainVersion \/ MainUnknownTool \/ MainToolHelp
              \/ MainUnknownCommand \/ MainCommandHelp \/ MainHandler
              \/ MainInvalid \/ MainReport)

\* C18: an invocation on the resolution path executes at most one shell
\* command or handler; the step after a command ran only reports it and ends
\* the invocation (no retry); and the invocation terminates: every step
\* moves main forward, so it takes at most four, and main is never stuck
\* between resolving and its end.
OneShotExecution ==
  /\ [](Len(executed) + HandlerRuns <= 1)
  /\ [][pc = "report" => (pc' = "done" /\ executed' = executed)]_vars
  /\ [][Rank' > Rank]_vars
  /\ [](pc \in {"resolve", "report"} => NotStuck)

OneShotWitness ==
  /\ pc = "done"
  /\ Len(executed) = 1
  /\ execResult.type = "shell"
  /\ ~execResult.success

\* The file could not be read or parsed.
LoadFails(file) == file.tag \in {"unreadable", "malformed"}

LoggedLoadFailure(what) ==
  \E k \in 1..Len(out) :
    /\ out[k].kind = "load_failed"
    /\ out[k].stream = "log"
    /\ out[k].detail[1] = what

\* C19: once main has called the loaders, each of them has returned a table
\* and thrown nothing; a loader whose file could not be read or parsed has
\* logged an error and returned the empty table.
LoaderNeverRaises ==
  Loaded =>
    /\ commands.tag # "thrown"
    /\ nlCommands.tag # "thrown"
    /\ LoadFails(yamlCommands) =>
         /\ commands.tag = "object"
         /\ Keys(commands) = {}
         /\ LoggedLoadFailure("commands")
    /\ LoadFails(yamlPhrases) =>
         /\ nlCommands.tag = "object"
         /\ Keys(nlCommands) = {}
         /\ LoggedLoadFailure("natural language commands")

LoaderNeverRaisesWitness ==
  /\ Loaded
  /\ yamlCommands = Malformed
  /\ yamlPhrases = Unreadable
  /\ commands.tag = "object"
  /\ Keys(commands) = {}
  /\ LoggedLoadFailure("commands")
  /\ LoggedLoadFailure("natural language commands")

\* The template has a placeholder: an opening brace, one or more characters
\* other than a closing brace, and a closing brace.
ContainsPlaceholder(t) ==
  \E p \in 1..Len(t) : \E q \in (p + 2)..Len(t) :
    /\ t[p] = "{"
    /\ t[q] = "}"
    /\ \A r \in (p + 1)..(q - 1) : t[r] # "}"

\* C20: formatting a template that contains no placeholder with no arguments
\* returns the template unchanged (the result is a function of the template
\* and the arguments alone).
NoPlaceholderIdentity ==
  (fpc = "done" /\ ~ContainsPlaceholder(template) /\ args = <<>>) =>
    result = template

NoPlaceholderWitness ==
  /\ fpc = "done"
  /\ template = <<"0", "}", "{", "1">>
  /\ ~ContainsPlaceholder(template)
  /\ args = <<>>
  /\ result = template

\* C21: an invocation whose first token is a known tool is resolved by the
\* explicit path alone: it ends in tool help, an unknown-command error,
\* command help, the handler or the template of the descriptor its second
\* token names, or an invalid-configuration error, never in general help or
\* an unknown-tool error, and whatever it executes is that descriptor's
\* template formatted with argv[2:], whatever the phrase table holds.
ExplicitFormPrecedence ==
  (KnownTool /\ pc \in {"report", "done"}) =>
    /\ Kinds \cap {"general_help", "version", "unknown_tool", "load_error"} = {}
    /\ \A k \in 1..Len(executed) :
         /\ KnownCommand
         /\ Truthy(Get(Descriptor, s_command))
         /\ executed[k] = formatCommand(Get(Descriptor, s_command).val,
                                        SubSeq(argv, 3, Len(argv)))
    /\ \A k \in 1..Len(out) :
         out[k].kind = "handler" =>
           (KnownCommand /\ out[k].detail = Get(Descriptor, s_handler).val)

\* The joined tokens "git status" are a phrase of the phrase table (mapped to
\* checkout), and the explicit command git status has run.
ExplicitFormWitness ==
  /\ pc = "done"
  /\ argv = <<s_git, s_status>>
  /\ KnownCommand
  /\ Join(argv, s_space) \in Keys(Get(nlCommands, s_git))
  /\ executed = <<t_git_status>>

\* C25: formatCommand of the Node entry point and formatCommand of
\* shared/utils.ts return the same string for every template and argument
\* list.
FormattersAgree == fpc = "done" => result = resultShared

\* The outcome class of a CommandInfo returned by parseCommandArgs.
InfoClass(ci) ==
  IF "type" \in DOMAIN ci THEN "version"
  ELSE IF "commandHelp" \in DOMAIN ci THEN "command_help"
  ELSE IF "toolHelp" \in DOMAIN ci
  THEN (IF "error" \in DOMAIN ci THEN "unknown_command" ELSE "tool_help")
  ELSE IF "showHelp" \in DOMAIN ci
  THEN (IF "error" \in DOMAIN ci /\ ci.error[1] = "Unknown tool"
        THEN "unknown_tool" ELSE "general_help")
  ELSE "execute"

\* The outcome class main chose, read from what it printed.
MainClass ==
  IF "unknown_tool" \in Kinds THEN "unknown_tool"
  ELSE IF "unknown_command" \in Kinds THEN "unknown_command"
  ELSE IF "general_help" \in Kinds THEN "general_help"
  ELSE IF "version" \in Kinds THEN "version"
  ELSE IF "tool_help" \in Kinds THEN "tool_help"
  ELSE IF "command_help" \in Kinds THEN "command_help"
  ELSE "execute"

\* C26: the outcome class main chooses is the class of the CommandInfo that
\* parseCommandArgs returns for the same argv and table, and the two agree
\* on whether the outcome is an error.
ResolversAgree ==
  (pc = "done" /\ Kinds \cap ResolutionKinds # {} /\ "pending" \notin DOMAIN info) =>
    /\ MainClass = InfoClass(info)
    /\ (MainClass \in {"unknown_tool", "unknown_command"}) <=> ("error" \in DOMAIN info)

\* The resolved descriptor has a handler.
HasHandler == KnownCommand /\ Truthy(Get(Descriptor, s_handler))

\* C27: a resolved descriptor with a handler, with or without a command
\* template, runs only the handler branch and passes no shell command to
\* the executor; the template is formatted and executed only for a
\* descriptor without a handler.
HandlerPrecedence ==
  /\ (Loaded /\ executed # <<>>) => ~HasHandler
  /\ (Loaded /\ "handler" \in Kinds) => (HasHandler /\ executed = <<>>)
  /\ (Loaded /\ "type" \in DOMAIN sharedExec /\ sharedExec.type # "none") =>
       IF HasHandler THEN sharedExec.type = "handler" ELSE sharedExec.type = "shell"
  /\ (pc = "done" /\ HasHandler /\ ResolutionKinds \cap Kinds = {"handler"}) =>
       (HandlerRuns = 1 /\ executed = <<>> /\ child = NoChild)

HandlerPrecedenceWitness ==
  /\ pc = "done"
  /\ KnownCommand
  /\ Truthy(Get(Descriptor, s_handler))
  /\ Truthy(Get(Descriptor, s_command))
  /\ HandlerRuns = 1
  /\ executed = <<>>
  /\ "type" \in DOMAIN sharedExec
  /\ sharedExec.type = "handler"

\* C28: with k placeholders in the template, formatCommand gives the same
\* string for an argument list and for its first k elements; arguments
\* beyond the k-th do not change the command string.
SurplusDropped ==
  fpc = "done" =>
    result = formatCommand(template, SubSeq(args, 1, Min(NumPlaceholders, Len(args))))

SurplusDroppedWitness ==
  /\ fpc = "done"
  /\ NumPlaceholders = 1
  /\ Len(args) = 2
  /\ args[2] # args[1]
  /\ result # template

====
